---------------------------- MODULE Spec2Model ----------------------------
(***************************************************************************)
(* generate_user_data of senza/components/taupage_auto_scaling_group.py:   *)
(* transform (with its calls of resolve_referenced_resource), yaml.dump,   *)
(* split over _AWS_FN_RE with json.loads, and the final collapse.          *)
(*                                                                         *)
(* Text is a sequence of one-character strings.  A node of the             *)
(* configuration tree is a record [t, v]:                                  *)
(*   t = "str": v is the string's characters                               *)
(*   t = "map": v is the sequence of <<key, node>> entries, in the dict's  *)
(*              insertion order (key: a sequence of characters)            *)
(*   t = "seq": v is the sequence of element nodes                         *)
(* The character alphabet is printable ASCII without line breaks, the      *)
(* scalars are strings, and a tree shares no object between two places     *)
(* (yaml.dump would emit anchors and aliases for a shared dict or list).   *)
(***************************************************************************)
EXTENDS Integers, Sequences, FiniteSets, TLC

VARIABLES
    taupage_config, \* the argument of generate_user_data
    pc,             \* where generate_user_data stands
    calls,          \* the nodes resolve_referenced_resource was called with
    returned,       \* the values those calls returned, in call order
    transformed,    \* transform(taupage_config), once it returned
    yaml_text,      \* yaml.dump's text, once dumped
    parts,          \* split's list, once split returned
    result,         \* the value generate_user_data returned
    error           \* the exception that left generate_user_data

vars == <<taupage_config, pc, calls, returned, transformed, yaml_text, parts,
          result, error>>

----------------------------------------------------------------------------
(* Nodes *)

Str(s) == [t |-> "str", v |-> s]
Map(kv) == [t |-> "map", v |-> kv]
Seq_(items) == [t |-> "seq", v |-> items]
None == [t |-> "none", v |-> <<>>]

Keys(node) == [i \in 1..Len(node.v) |-> node.v[i][1]]
HasKey(node, k) == \E i \in 1..Len(node.v) : node.v[i][1] = k

RECURSIVE Flatten(_)
Flatten(ss) == IF ss = <<>> THEN <<>> ELSE Head(ss) \o Flatten(Tail(ss))

RECURSIVE JoinWith(_, _)
JoinWith(sep, ss) ==
    IF ss = <<>> THEN <<>>
    ELSE IF Len(ss) = 1 THEN ss[1]
    ELSE ss[1] \o sep \o JoinWith(sep, Tail(ss))

----------------------------------------------------------------------------
(* json.dumps(node), default arguments: separators ", " and ": ", keys in  *)
(* insertion order, strings quoted with " and \ escaped.                   *)

json_escape_char(c) ==
    IF c = "\"" THEN <<"\\", "\"">>
    ELSE IF c = "\\" THEN <<"\\", "\\">>
    ELSE IF c = "\n" THEN <<"\\", "n">>
    ELSE <<c>>

json_string(s) ==
    <<"\"">> \o Flatten([i \in 1..Len(s) |-> json_escape_char(s[i])]) \o <<"\"">>

RECURSIVE json_dumps(_)
json_dumps(node) ==
    IF node.t = "str" THEN json_string(node.v)
    ELSE IF node.t = "map" THEN
        <<"{">> \o
        JoinWith(<<",", " ">>,
                 [i \in 1..Len(node.v) |->
                    json_string(node.v[i][1]) \o <<":", " ">> \o json_dumps(node.v[i][2])])
        \o <<"}">>
    ELSE
        <<"[">> \o
        JoinWith(<<",", " ">>, [i \in 1..Len(node.v) |-> json_dumps(node.v[i])])
        \o <<"]">>

----------------------------------------------------------------------------
(* transform *)

K_Ref == <<"R", "e", "f">>
K_Stack == <<"S", "t", "a", "c", "k">>
K_Output == <<"O", "u", "t", "p", "u", "t">>
FN_PREFIX == <<"F", "n", ":", ":">>

StartsWith(s, p) == Len(s) >= Len(p) /\ SubSeq(s, 1, Len(p)) = p

is_aws_fn(name) == name = K_Ref \/ StartsWith(name, FN_PREFIX)

\* A variant: only a dict of exactly the two keys is a lookup
IsLookup_exact(node) ==
    node.t = "map" /\ Len(node.v) = 2 /\ HasKey(node, K_Stack) /\ HasKey(node, K_Output)

\* "'Stack' in node and 'Output' in node"
IsLookup(node) == node.t = "map" /\ HasKey(node, K_Stack) /\ HasKey(node, K_Output)

\* A variant: the walk does not stop at an AWS function node
IsAwsFnNode_descend(node) == FALSE

\* "num_keys == 1 and is_aws_fn(key)", reached only when the test above failed
IsAwsFnNode(node) ==
    node.t = "map" /\ ~IsLookup(node) /\ Len(node.v) = 1 /\ is_aws_fn(node.v[1][1])

Placeholder(node) == Str(<<"{", "{", " ">> \o json_dumps(node) \o <<" ", "}", "}">>)

\* The nodes transform hands to resolve_referenced_resource, in the order of
\* its walk: a dict's values in items() order, a list's elements in order,
\* nothing below a node it turns into a placeholder.
RECURSIVE Lookups(_)
Lookups(node) ==
    IF node.t = "map" THEN
        IF IsLookup(node) THEN <<node>>
        ELSE IF IsAwsFnNode(node) THEN <<>>
        ELSE Flatten([i \in 1..Len(node.v) |-> Lookups(node.v[i][2])])
    ELSE IF node.t = "seq" THEN
        Flatten([i \in 1..Len(node.v) |-> Lookups(node.v[i])])
    ELSE <<>>

\* transform(node), with rs the values the Resolver returns to the calls made
\* in node, in call order: [node |-> the value returned, rest |-> the values
\* left for the calls after node].
RECURSIVE transform(_, _), transformValues(_, _, _), transformItems(_, _, _)
transform(node, rs) ==
    IF node.t = "map" THEN
        IF IsLookup(node) THEN [node |-> Head(rs), rest |-> Tail(rs)]
        ELSE IF Len(node.v) > 0 THEN
            IF Len(node.v) = 1 /\ is_aws_fn(node.v[1][1])
            THEN [node |-> Placeholder(node), rest |-> rs]
            ELSE transformValues(node.v, rs, <<>>)
        ELSE [node |-> node, rest |-> rs]
    ELSE IF node.t = "seq" THEN transformItems(node.v, rs, <<>>)
    ELSE [node |-> node, rest |-> rs]

transformValues(kv, rs, done) ==
    IF kv = <<>> THEN [node |-> Map(done), rest |-> rs]
    ELSE LET r == transform(kv[1][2], rs)
         IN transformValues(Tail(kv), r.rest, Append(done, <<kv[1][1], r.node>>))

\* A variant: a list is returned as it is
transformItems_shallow(items, rs, done) == [node |-> Seq_(items), rest |-> rs]

transformItems(items, rs, done) ==
    IF items = <<>> THEN [node |-> Seq_(done), rest |-> rs]
    ELSE LET r == transform(items[1], rs)
         IN transformItems(Tail(items), r.rest, Append(done, r.node))

----------------------------------------------------------------------------
(* yaml.dump(node, width=sys.maxsize, default_flow_style=False): PyYAML's   *)
(* block style.  A dict's entries are written sorted by key (represent_dict *)
(* sorts), a scalar is written plain when the emitter's analysis allows it  *)
(* and single-quoted otherwise, an empty dict or list is written in flow    *)
(* style, and a list that is a dict's value is not indented further.        *)

\* Printable ASCII in code order (no backquote); Code(c) is c's rank in it.
AsciiOrder ==
    <<" ", "!", "\"", "#", "$", "%", "&", "'", "(", ")", "*", "+", ",", "-", ".", "/",
      "0", "1", "2", "3", "4", "5", "6", "7", "8", "9", ":", ";", "<", "=", ">", "?",
      "@", "A", "B", "C", "D", "E", "F", "G", "H", "I", "J", "K", "L", "M", "N", "O",
      "P", "Q", "R", "S", "T", "U", "V", "W", "X", "Y", "Z", "[", "\\", "]", "^", "_",
      "a", "b", "c", "d", "e", "f", "g", "h", "i", "j", "k", "l", "m", "n", "o", "p",
      "q", "r", "s", "t", "u", "v", "w", "x", "y", "z", "{", "|", "}", "~">>

Code(c) == CHOOSE i \in 1..Len(AsciiOrder) : AsciiOrder[i] = c

\* Python's str <: by code point, a proper prefix first.
RECURSIVE StrLess(_, _)
StrLess(a, b) ==
    IF b = <<>> THEN FALSE
    ELSE IF a = <<>> THEN TRUE
    ELSE IF a[1] = b[1] THEN StrLess(Tail(a), Tail(b))
    ELSE Code(a[1]) < Code(b[1])

RECURSIVE InsertSorted(_, _)
InsertSorted(e, kv) ==
    IF kv = <<>> THEN <<e>>
    ELSE IF StrLess(e[1], kv[1][1]) THEN <<e>> \o kv
    ELSE <<kv[1]>> \o InsertSorted(e, Tail(kv))

\* A variant: the entries are written in insertion order
SortedItems_unsorted(kv) == kv

\* represent_dict: sorted(mapping.items())
RECURSIVE SortedItems(_)
SortedItems(kv) ==
    IF kv = <<>> THEN <<>> ELSE InsertSorted(kv[1], SortedItems(Tail(kv)))

Whitespace == {" ", "\t", "\r", "\n"}

FollowedByWhitespace(s, i) == i = Len(s) \/ s[i + 1] \in Whitespace

\* analyze_scalar's block_indicators (the alphabet has no backquote)
BlockIndicators(s) ==
    \/ StartsWith(s, <<"-", "-", "-">>)
    \/ StartsWith(s, <<".", ".", ".">>)
    \/ s[1] \in {"#", ",", "[", "]", "{", "}", "&", "*", "!", "|", ">", "'", "\"",
                 "%", "@"}
    \/ s[1] \in {"?", ":", "-"} /\ FollowedByWhitespace(s, 1)
    \/ \E i \in 2..Len(s) : s[i] = ":" /\ FollowedByWhitespace(s, i)
    \/ \E i \in 2..Len(s) : s[i] = "#" /\ s[i - 1] \in Whitespace

\* The strings the resolver reads as null, bool, merge or value rather than
\* str (the alphabet has no digits, so none as int, float or timestamp).
ImplicitNonStr ==
    { <<>>, <<"~">>, <<"n", "u", "l", "l">>, <<"y", "e", "s">>, <<"n", "o">>,
      <<"o", "n">>, <<"t", "r", "u", "e">>, <<"f", "a", "l", "s", "e">>,
      <<"o", "f", "f">>, <<"=">>, <<"<", "<">> }

\* choose_scalar_style returns '' (plain): the block context's test
AllowBlockPlain(s) ==
    /\ s \notin ImplicitNonStr
    /\ s[1] # " "
    /\ s[Len(s)] # " "
    /\ ~BlockIndicators(s)

\* write_single_quoted: each ' doubled, no line folded (width=sys.maxsize)
single_quoted(s) ==
    <<"'">> \o Flatten([i \in 1..Len(s) |-> IF s[i] = "'" THEN <<"'", "'">> ELSE <<s[i]>>])
    \o <<"'">>

scalar_text(s) == IF AllowBlockPlain(s) THEN s ELSE single_quoted(s)

Indent(n) == [i \in 1..n |-> " "]

\* What the emitter writes on the line of the key or of the "-": a scalar or
\* an empty collection.
IsInline(node) == node.t = "str" \/ node.v = <<>>

inline_text(node) ==
    IF node.t = "str" THEN scalar_text(node.v)
    ELSE IF node.t = "map" THEN <<"{", "}">>
    ELSE <<"[", "]">>

\* The block of a non-empty dict or list whose lines stand at column ind;
\* the first line's indentation is the caller's.
RECURSIVE emit_block(_, _), emit_entry(_, _), emit_item(_, _)
emit_block(node, ind) ==
    IF node.t = "map" THEN
        LET kv == SortedItems(node.v)
        IN JoinWith(Indent(ind), [i \in 1..Len(kv) |-> emit_entry(kv[i], ind)])
    ELSE JoinWith(Indent(ind), [i \in 1..Len(node.v) |-> emit_item(node.v[i], ind)])

emit_entry(e, ind) ==
    scalar_text(e[1]) \o <<":">> \o
    ( IF IsInline(e[2]) THEN <<" ">> \o inline_text(e[2]) \o <<"\n">>
      ELSE IF e[2].t = "map" THEN <<"\n">> \o Indent(ind + 2) \o emit_block(e[2], ind + 2)
      ELSE <<"\n">> \o Indent(ind) \o emit_block(e[2], ind) )

emit_item(item, ind) ==
    <<"-", " ">> \o
    ( IF IsInline(item) THEN inline_text(item) \o <<"\n">>
      ELSE emit_block(item, ind + 2) )

\* yaml.dump of a dict
yaml_dump(node) ==
    IF IsInline(node) THEN inline_text(node) \o <<"\n">> ELSE emit_block(node, 0)

----------------------------------------------------------------------------
(* json.loads(text): the decoder's scanner over the alphabet.  The inputs'  *)
(* strings hold no backslash, so the text holds only the escapes json.dumps *)
(* wrote (\b, \f and \u are not read); the alphabet has no digit, so no     *)
(* number is read.                                                         *)

Fail == [ok |-> FALSE, node |-> None, pos |-> 0]
Ok(node, pos) == [ok |-> TRUE, node |-> node, pos |-> pos]

RECURSIVE skip_ws(_, _)
skip_ws(s, i) == IF i <= Len(s) /\ s[i] \in Whitespace THEN skip_ws(s, i + 1) ELSE i

At(s, i, c) == i <= Len(s) /\ s[i] = c

\* dict[key] = value: a repeated key keeps its place and takes the last value
RECURSIVE PutKey(_, _, _)
PutKey(kv, k, node) ==
    IF kv = <<>> THEN << <<k, node>> >>
    ELSE IF kv[1][1] = k THEN << <<k, node>> >> \o Tail(kv)
    ELSE <<kv[1]>> \o PutKey(Tail(kv), k, node)

Unescape(e) ==
    IF e \in {"\"", "\\", "/"} THEN e
    ELSE IF e = "n" THEN "\n"
    ELSE IF e = "t" THEN "\t"
    ELSE IF e = "r" THEN "\r"
    ELSE "?"

\* scanstring, strict: from the character after the opening quote
RECURSIVE scanstring(_, _, _)
scanstring(s, i, acc) ==
    IF i > Len(s) THEN Fail
    ELSE IF s[i] = "\"" THEN Ok(Str(acc), i + 1)
    ELSE IF s[i] = "\\" THEN
        IF i + 1 > Len(s) \/ Unescape(s[i + 1]) = "?" THEN Fail
        ELSE scanstring(s, i + 2, Append(acc, Unescape(s[i + 1])))
    ELSE IF s[i] \in {"\n", "\t", "\r"} THEN Fail
    ELSE scanstring(s, i + 1, Append(acc, s[i]))

L_null == <<"n", "u", "l", "l">>
L_true == <<"t", "r", "u", "e">>
L_false == <<"f", "a", "l", "s", "e">>

IsAt(s, i, w) == i + Len(w) - 1 <= Len(s) /\ SubSeq(s, i, i + Len(w) - 1) = w

RECURSIVE scan_once(_, _), JSONObject(_, _, _), JSONArray(_, _, _)
scan_once(s, i) ==
    IF i > Len(s) THEN Fail
    ELSE IF s[i] = "\"" THEN scanstring(s, i + 1, <<>>)
    ELSE IF s[i] = "{" THEN
        LET j == skip_ws(s, i + 1)
        IN IF At(s, j, "}") THEN Ok(Map(<<>>), j + 1) ELSE JSONObject(s, j, <<>>)
    ELSE IF s[i] = "[" THEN
        LET j == skip_ws(s, i + 1)
        IN IF At(s, j, "]") THEN Ok(Seq_(<<>>), j + 1) ELSE JSONArray(s, j, <<>>)
    ELSE IF IsAt(s, i, L_null) THEN Ok([t |-> "lit", v |-> L_null], i + 4)
    ELSE IF IsAt(s, i, L_true) THEN Ok([t |-> "lit", v |-> L_true], i + 4)
    ELSE IF IsAt(s, i, L_false) THEN Ok([t |-> "lit", v |-> L_false], i + 5)
    ELSE Fail

\* from the quote that opens the next key
JSONObject(s, i, acc) ==
    IF ~At(s, i, "\"") THEN Fail
    ELSE
        LET k == scanstring(s, i + 1, <<>>)
        IN IF ~k.ok THEN Fail
           ELSE
             LET c == skip_ws(s, k.pos)
             IN IF ~At(s, c, ":") THEN Fail
                ELSE
                  LET val == scan_once(s, skip_ws(s, c + 1))
                  IN IF ~val.ok THEN Fail
                     ELSE
                       LET e == skip_ws(s, val.pos)
                           kv == PutKey(acc, k.node.v, val.node)
                       IN IF At(s, e, "}") THEN Ok(Map(kv), e + 1)
                          ELSE IF At(s, e, ",") THEN JSONObject(s, skip_ws(s, e + 1), kv)
                          ELSE Fail

\* from the first character of the next element
JSONArray(s, i, acc) ==
    LET val == scan_once(s, i)
    IN IF ~val.ok THEN Fail
       ELSE
         LET e == skip_ws(s, val.pos)
             items == Append(acc, val.node)
         IN IF At(s, e, "]") THEN Ok(Seq_(items), e + 1)
            ELSE IF At(s, e, ",") THEN JSONArray(s, skip_ws(s, e + 1), items)
            ELSE Fail

\* json.loads: one value, then nothing but whitespace ("Extra data" otherwise)
json_loads(s) ==
    LET val == scan_once(s, skip_ws(s, 1))
    IN IF val.ok /\ skip_ws(s, val.pos) = Len(s) + 1 THEN val ELSE Fail

----------------------------------------------------------------------------
(* _AWS_FN_RE = ('[{]{2} (.*?) [}]{2}'), re.DOTALL, and split               *)

RE_OPEN == <<"'", "{", "{", " ">>
RE_CLOSE == <<" ", "}", "}", "'">>

\* the least j >= i where pat stands in text, or 0
FindFrom(text, i, pat) ==
    LET S == {j \in i..(Len(text) - Len(pat) + 1) : IsAt(text, j, pat)}
    IN IF S = {} THEN 0 ELSE CHOOSE j \in S : \A k \in S : j <= k

\* _AWS_FN_RE.finditer(text) from position pos: the matches left to right,
\* not overlapping, each with the shortest group 2 (".*?" crosses lines);
\* start and end are m.start(1) and m.end(1) as 1-based positions, end
\* exclusive.
RECURSIVE finditer(_, _)
finditer(text, pos) ==
    LET s == FindFrom(text, pos, RE_OPEN)
        e == IF s = 0 THEN 0 ELSE FindFrom(text, s + 4, RE_CLOSE)
    IN IF e = 0 THEN <<>>
       ELSE <<[start |-> s, end |-> e + 4, group2 |-> SubSeq(text, s + 4, e - 1)]>>
            \o finditer(text, e + 4)

\* split(text): [ok |-> FALSE] when a json.loads raised
RECURSIVE split_from(_, _, _, _)
split_from(text, ms, last_pos, acc) ==
    IF ms = <<>> THEN [ok |-> TRUE, parts |-> Append(acc, Str(SubSeq(text, last_pos, Len(text))))]
    ELSE LET m == Head(ms)
             d == json_loads(m.group2)
         IN IF ~d.ok THEN [ok |-> FALSE, parts |-> <<>>]
            ELSE split_from(text, Tail(ms), m.end,
                            acc \o <<Str(SubSeq(text, last_pos, m.start - 1)), d.node>>)

split(text) == split_from(text, finditer(text, 1), 1, <<>>)

HEADER ==
    <<"#", "t", "a", "u", "p", "a", "g", "e", "-", "a", "m", "i", "-",
      "c", "o", "n", "f", "i", "g", "\n">>

K_FnJoin == <<"F", "n", ":", ":", "J", "o", "i", "n">>

\* A variant: the list is wrapped whatever its length
collapse_always_join(ps) == Map(<< <<K_FnJoin, Seq_(<<Str(<<>>), Seq_(ps)>>)>> >>)

\* lines 178-181
collapse(ps) ==
    IF Len(ps) = 1 THEN ps[1]
    ELSE Map(<< <<K_FnJoin, Seq_(<<Str(<<>>), Seq_(ps)>>)>> >>)

----------------------------------------------------------------------------
(* The inputs: the values a configuration's entries take.                   *)

V_quote == Str(<<"i", "t", "'", "s">>)
V_ph_text == Str(<<"{", "{", " ", "x", " ", "}", "}">>)
V_ph_json == Str(<<"{", "{", " ", "\"", "x", "\"", " ", "}", "}">>)
V_open == Str(<<"{", "{", " ", "a">>)
V_close == Str(<<"x", " ", "}", "}", "'">>)
V_empty == Str(<<>>)
E_ref == Map(<<<<<<"R", "e", "f">>, Str(<<"x">>)>>>>)
E_quote == Map(<<<<<<"R", "e", "f">>, Str(<<"i", "t", "'", "s">>)>>>>)
E_close ==
    Map(<<<<<<"R", "e", "f">>, Str(<<"a", " ", "}", "}", "'", "b">>)>>>>)
E_nested ==
    Map(<<<<<<"F", "n", ":", ":", "x">>, Seq_(<<Str(<<"s", "a", "y", " ",
      "\"", "x", "\"">>), Map(<<<<<<"R", "e", "f">>,
      Str(<<"x">>)>>>>)>>)>>>>)
E_nested_quote ==
    Map(<<<<<<"R", "e", "f">>, Map(<<<<<<"F", "n", ":", ":", "x">>,
      Str(<<"i", "t", "'", "s">>)>>>>)>>>>)
E_lookup ==
    Map(<<<<<<"R", "e", "f">>, Map(<<<<<<"S", "t", "a", "c", "k">>,
      Str(<<"s">>)>>, <<<<"O", "u", "t", "p", "u", "t">>,
      Str(<<"o">>)>>>>)>>>>)
N_lookup ==
    Map(<<<<<<"S", "t", "a", "c", "k">>, Str(<<"s">>)>>, <<<<"O", "u", "t",
      "p", "u", "t">>, Str(<<"o">>)>>>>)
N_lookup_extra ==
    Map(<<<<<<"S", "t", "a", "c", "k">>, Str(<<"s">>)>>, <<<<"O", "u", "t",
      "p", "u", "t">>, Str(<<"o">>)>>, <<<<"k">>, Str(<<"x">>)>>>>)
N_map ==
    Map(<<<<<<"b">>, Str(<<"x">>)>>, <<<<"a">>, Map(<<<<<<"S", "t", "a", "c",
      "k">>, Str(<<"s">>)>>, <<<<"O", "u", "t", "p", "u", "t">>,
      Str(<<"o">>)>>>>)>>>>)
N_two ==
    Map(<<<<<<"R", "e", "f">>, Str(<<"x">>)>>, <<<<"k">>, Str(<<"x">>)>>>>)
N_seq ==
    Seq_(<<Str(<<"x">>), Seq_(<<>>), Map(<<<<<<"R", "e", "f">>, Str(<<"x">>)>>>>),
      Map(<<<<<<"k">>, N_lookup>>>>)>>)
N_empty_map == Map(<<>>)

Values ==
    {V_quote, V_ph_text, V_ph_json, V_open, V_close,
     V_empty, E_ref, E_quote, E_close, E_nested,
     E_nested_quote, E_lookup, N_lookup, N_lookup_extra, N_map,
     N_two, N_seq, N_empty_map}

\* What resolve_referenced_resource returns when it returns
ResolverValues == {<<"v">>, <<"w">>}

\* The most entries of the configuration
MaxEntries == 2

KeyNames == << <<"a">>, <<"b">>, <<"c">>, <<"e">> >>

\* The configurations of n entries: the keys inserted in ascending or in
\* descending order.
ConfigsOf(n) ==
    UNION { { Map([i \in 1..n |-> <<KeyNames[i], f[i]>>]),
              Map([i \in 1..n |-> <<KeyNames[n + 1 - i], f[i]>>]) } :
            f \in [1..n -> Values] }

Configs == UNION {ConfigsOf(n) : n \in 0..MaxEntries}

----------------------------------------------------------------------------
(* generate_user_data(taupage_config, region) *)

Init ==
    /\ taupage_config \in Configs
    /\ pc = "transform"
    /\ calls = <<>>
    /\ returned = <<>>
    /\ transformed = None
    /\ yaml_text = <<>>
    /\ parts = <<>>
    /\ result = None
    /\ error = "none"

\* resolve_referenced_resource returned value
ResolverReturns(node, value) ==
    /\ calls' = Append(calls, [node |-> node, raised |-> FALSE])
    /\ returned' = Append(returned, Str(value))
    /\ UNCHANGED <<pc, error>>

\* A variant: a failed lookup is replaced by the empty string
ResolverRaises_default(node) ==
    /\ calls' = Append(calls, [node |-> node, raised |-> TRUE])
    /\ returned' = Append(returned, Str(<<>>))
    /\ UNCHANGED <<pc, error>>

\* resolve_referenced_resource raised: nothing in transform or in
\* generate_user_data catches it
ResolverRaises(node) ==
    /\ calls' = Append(calls, [node |-> node, raised |-> TRUE])
    /\ pc' = "raised"
    /\ error' = "ResolutionError"
    /\ UNCHANGED returned

\* line 149: transform reaches its next node with 'Stack' and 'Output'
ResolverCall ==
    /\ pc = "transform"
    /\ Len(calls) < Len(Lookups(taupage_config))
    /\ LET node == Lookups(taupage_config)[Len(calls) + 1]
       IN \/ \E value \in ResolverValues : ResolverReturns(node, value)
          \/ ResolverRaises(node)
    /\ UNCHANGED <<taupage_config, transformed, yaml_text, parts, result>>

\* line 174: transform(taupage_config) returns
TransformReturn ==
    /\ pc = "transform"
    /\ Len(calls) = Len(Lookups(taupage_config))
    /\ transformed' = transform(taupage_config, returned).node
    /\ pc' = "dump"
    /\ UNCHANGED <<taupage_config, calls, returned, yaml_text, parts, result, error>>

\* line 174: yaml.dump
Dump ==
    /\ pc = "dump"
    /\ yaml_text' = yaml_dump(transformed)
    /\ pc' = "split"
    /\ UNCHANGED <<taupage_config, calls, returned, transformed, parts, result, error>>

\* line 176: split, which a json.loads may leave by raising
Split ==
    /\ pc = "split"
    /\ LET r == split(HEADER \o yaml_text)
       IN IF r.ok
          THEN parts' = r.parts /\ pc' = "collapse" /\ error' = error
          ELSE parts' = parts /\ pc' = "raised" /\ error' = "JSONDecodeError"
    /\ UNCHANGED <<taupage_config, calls, returned, transformed, yaml_text, result>>

\* lines 178-181
Return ==
    /\ pc = "collapse"
    /\ result' = collapse(parts)
    /\ pc' = "done"
    /\ UNCHANGED <<taupage_config, calls, returned, transformed, yaml_text, parts, error>>

Next == ResolverCall \/ TransformReturn \/ Dump \/ Split \/ Return

Spec == Init /\ [][Next]_vars

----------------------------------------------------------------------------
(* The specification's notions, stated on trees *)

\* DeferredExpressionNode: a Mapping of one entry whose key is Ref or
\* begins with Fn::
DeferredExpressionNode(n) ==
    n.t = "map" /\ Len(n.v) = 1
    /\ (n.v[1][1] = <<"R", "e", "f">> \/ StartsWith(n.v[1][1], <<"F", "n", ":", ":">>))

ContainsStackOutput(n) ==
    /\ n.t = "map"
    /\ \E i \in 1..Len(n.v) : n.v[i][1] = <<"S", "t", "a", "c", "k">>
    /\ \E i \in 1..Len(n.v) : n.v[i][1] = <<"O", "u", "t", "p", "u", "t">>

\* ResourceLookupNode: a Mapping of exactly the two entries Stack and Output
ResourceLookupNode(n) == ContainsStackOutput(n) /\ Len(n.v) = 2

Children(n) ==
    IF n.t = "map" THEN {n.v[i][2] : i \in 1..Len(n.v)}
    ELSE IF n.t = "seq" THEN {n.v[i] : i \in 1..Len(n.v)}
    ELSE {}

\* n and every node below it
RECURSIVE Subnodes(_)
Subnodes(n) == {n} \cup UNION {Subnodes(c) : c \in Children(n)}

\* The nodes a walk reaches that stops at the nodes it resolves and at the
\* deferred expressions
RECURSIVE Reached(_)
Reached(n) ==
    {n} \cup
    IF ContainsStackOutput(n) \/ DeferredExpressionNode(n) THEN {}
    ELSE UNION {Reached(c) : c \in Children(n)}

\* The deferred expressions the walk reaches, one per occurrence
RECURSIVE ReachedDeferred(_)
ReachedDeferred(n) ==
    IF ContainsStackOutput(n) THEN <<>>
    ELSE IF DeferredExpressionNode(n) THEN <<n>>
    ELSE IF n.t = "map" THEN Flatten([i \in 1..Len(n.v) |-> ReachedDeferred(n.v[i][2])])
    ELSE IF n.t = "seq" THEN Flatten([i \in 1..Len(n.v) |-> ReachedDeferred(n.v[i])])
    ELSE <<>>

\* The expression elements of a split result: its 2nd, 4th, ... elements
ExprElements(ps) == {ps[i] : i \in {j \in 1..Len(ps) : j % 2 = 0}}

\* No scalar of the configuration itself begins like a placeholder: the
\* placeholders transform writes are then the only text the pattern can open at.
OwnScalarsPlain ==
    \A n \in Reached(taupage_config) :
        n.t = "str" => ~StartsWith(n.v, <<"{", "{", " ">>)

Finished == pc = "done"

\* What transform makes of a node when the Resolver is called for the
\* Mappings that Called accepts: Rebuilt for those holding Stack and Output,
\* RebuiltExact for those of exactly these two entries.
RECURSIVE Rebuilt(_, _), RebuiltExact(_, _)
Rebuilt(in, out) ==
    IF in.t = "map" THEN
        IF ContainsStackOutput(in) THEN \E j \in 1..Len(returned) : out = returned[j]
        ELSE IF DeferredExpressionNode(in)
             THEN out.t = "str" /\ StartsWith(out.v, <<"{", "{", " ">>)
        ELSE /\ out.t = "map"
             /\ Len(out.v) = Len(in.v)
             /\ \A i \in 1..Len(in.v) :
                   out.v[i][1] = in.v[i][1] /\ Rebuilt(in.v[i][2], out.v[i][2])
    ELSE IF in.t = "seq" THEN
        /\ out.t = "seq"
        /\ Len(out.v) = Len(in.v)
        /\ \A i \in 1..Len(in.v) : Rebuilt(in.v[i], out.v[i])
    ELSE out = in

RebuiltExact(in, out) ==
    IF in.t = "map" THEN
        IF ResourceLookupNode(in) THEN \E j \in 1..Len(returned) : out = returned[j]
        ELSE IF DeferredExpressionNode(in)
             THEN out.t = "str" /\ StartsWith(out.v, <<"{", "{", " ">>)
        ELSE /\ out.t = "map"
             /\ Len(out.v) = Len(in.v)
             /\ \A i \in 1..Len(in.v) :
                   out.v[i][1] = in.v[i][1] /\ RebuiltExact(in.v[i][2], out.v[i][2])
    ELSE IF in.t = "seq" THEN
        /\ out.t = "seq"
        /\ Len(out.v) = Len(in.v)
        /\ \A i \in 1..Len(in.v) : RebuiltExact(in.v[i], out.v[i])
    ELSE out = in

----------------------------------------------------------------------------
(* C1 *)

\* C1 (as claimed): every DeferredExpressionNode the walker reaches comes out
\* of split as an expression element structurally equal to it.  Stated for
\* the configurations whose own scalars do not begin like a placeholder.
C1_RoundTrip ==
    (Finished /\ OwnScalarsPlain) =>
        \A e \in Reached(taupage_config) :
            DeferredExpressionNode(e) => e \in ExprElements(parts)

----------------------------------------------------------------------------
(* C2 *)

ExpressionFree ==
    \A n \in Subnodes(taupage_config) :
        ~DeferredExpressionNode(n) /\ ~ContainsStackOutput(n)

\* C2 (as claimed): a tree with no DeferredExpressionNode and no
\* ResourceLookupNode comes back as the single string header + serialization
\* of the tree, whatever its scalars are.
C2_Identity ==
    (Finished /\ ExpressionFree) =>
        result = Str(HEADER \o yaml_dump(taupage_config))

----------------------------------------------------------------------------
(* C3 *)

----------------------------------------------------------------------------
(* C4 *)

ResolverFailed == \E i \in 1..Len(calls) : calls[i].raised

\* C4: once a Resolver call has failed, generate_user_data has failed with
\* that error, no text, no parts and no value exist, and no value stands in
\* for the failed call.
C4_FailurePropagates ==
    ResolverFailed =>
        /\ pc = "raised" /\ error = "ResolutionError"
        /\ transformed = None /\ yaml_text = <<>> /\ parts = <<>> /\ result = None
        /\ Len(returned) = Len(calls) - 1

C4_Witness == pc = "raised" /\ error = "ResolutionError" /\ Len(returned) >= 1

----------------------------------------------------------------------------
(* C5 *)

IsOdd(i) == i % 2 = 1

\* C5: with k matches in the text, split's list has 2k+1 elements, literal
\* text at the 1st, 3rd, ... places and the decoded groups at the others;
\* the literals and the matched quoted strings tile the text; the value
\* returned is the bare string for one element and the Fn::Join of the whole
\* list otherwise.
C5_BoundingLiterals ==
    pc \in {"collapse", "done"} =>
        LET text == HEADER \o yaml_text
            ms == finditer(text, 1)
            k == Len(ms)
        IN /\ Len(parts) = 2 * k + 1
           /\ \A i \in 1..Len(parts) :
                IF IsOdd(i) THEN parts[i].t = "str"
                ELSE /\ json_loads(ms[i \div 2].group2).ok
                     /\ json_loads(ms[i \div 2].group2).node = parts[i]
           /\ Flatten([i \in 1..Len(parts) |->
                        IF IsOdd(i) THEN parts[i].v
                        ELSE <<"'", "{", "{", " ">> \o ms[i \div 2].group2
                             \o <<" ", "}", "}", "'">>]) = text
           /\ Finished =>
                IF k = 0 THEN result = Str(text)
                ELSE /\ result.t = "map"
                     /\ Len(result.v) = 1
                     /\ result.v[1][1] = <<"F", "n", ":", ":", "J", "o", "i", "n">>
                     /\ result.v[1][2] = Seq_(<<Str(<<>>), Seq_(parts)>>)
                     /\ Len(parts) >= 3 /\ IsOdd(Len(parts))

C5_Witness == Finished /\ Len(parts) >= 5 /\ parts[3].v # <<>>

----------------------------------------------------------------------------
(* C6 *)

HoldsDeferredBelow(e) ==
    \E n \in Subnodes(e.v[1][2]) : DeferredExpressionNode(n)

\* C6 (as claimed): a reached DeferredExpressionNode whose value holds another
\* one comes out as one expression element, the inner node verbatim inside
\* it, and the expression elements are the reached nodes only (the inner one
\* is no element of its own).  Stated for the configurations whose own
\* scalars do not begin like a placeholder.
C6_NestedOpacity ==
    (Finished /\ OwnScalarsPlain) =>
        LET reached == ReachedDeferred(taupage_config)
        IN (\E i \in 1..Len(reached) : HoldsDeferredBelow(reached[i])) =>
              /\ Len(parts) = 2 * Len(reached) + 1
              /\ \A i \in 1..Len(reached) :
                    HoldsDeferredBelow(reached[i]) => reached[i] \in ExprElements(parts)

----------------------------------------------------------------------------
(* C7 *)

\* The lines of a text from position from on, without their line ends
RECURSIVE SplitLines(_, _)
SplitLines(text, from) ==
    LET e == FindFrom(text, from, <<"\n">>)
    IN IF e = 0 THEN (IF from > Len(text) THEN <<>> ELSE <<SubSeq(text, from, Len(text))>>)
       ELSE <<SubSeq(text, from, e - 1)>> \o SplitLines(text, e + 1)

\* A line without its indentation and its "- " marks
RECURSIVE Unmarked(_)
Unmarked(line) ==
    IF line # <<>> /\ line[1] = " " THEN Unmarked(Tail(line))
    ELSE IF Len(line) >= 2 /\ line[1] = "-" /\ line[2] = " " THEN Unmarked(Tail(Tail(line)))
    ELSE line

\* What a line of block YAML starts with: the key of "key: value" or "key:",
\* or else the scalar (or {} or []) that is the line
LineHead(line) ==
    LET r == Unmarked(line)
        S == {i \in 1..Len(r) : r[i] = ":" /\ (i = Len(r) \/ r[i + 1] = " ")}
    IN IF r = <<>> \/ r[1] = "'" \/ S = {} THEN r
       ELSE SubSeq(r, 1, (CHOOSE i \in S : \A j \in S : i <= j) - 1)

LineHeads(text) ==
    LET ls == SplitLines(text, 1) IN [i \in 1..Len(ls) |-> LineHead(ls[i])]

Without(seq, i) == SubSeq(seq, 1, i - 1) \o SubSeq(seq, i + 1, Len(seq))

\* The entries by ascending key
RECURSIVE Ascending(_)
Ascending(kv) ==
    IF kv = <<>> THEN <<>>
    ELSE LET m == CHOOSE i \in 1..Len(kv) :
                     \A j \in 1..Len(kv) : j # i => StrLess(kv[i][1], kv[j][1])
         IN <<kv[m]>> \o Ascending(Without(kv, m))

\* The line heads of a tree's text when each Mapping's entries are written
\* by ascending key, and when they are written in insertion order
RECURSIVE HeadsAscending(_), HeadsInsertion(_)
HeadsAscending(n) ==
    IF IsInline(n) THEN <<inline_text(n)>>
    ELSE IF n.t = "map" THEN
        LET kv == Ascending(n.v)
        IN Flatten([i \in 1..Len(kv) |->
                      <<kv[i][1]>> \o
                      (IF IsInline(kv[i][2]) THEN <<>> ELSE HeadsAscending(kv[i][2]))])
    ELSE Flatten([i \in 1..Len(n.v) |-> HeadsAscending(n.v[i])])

HeadsInsertion(n) ==
    IF IsInline(n) THEN <<inline_text(n)>>
    ELSE IF n.t = "map" THEN
        Flatten([i \in 1..Len(n.v) |->
                   <<n.v[i][1]>> \o
                   (IF IsInline(n.v[i][2]) THEN <<>> ELSE HeadsInsertion(n.v[i][2]))])
    ELSE Flatten([i \in 1..Len(n.v) |-> HeadsInsertion(n.v[i])])

----------------------------------------------------------------------------
(* C8 *)

\* C8 (as claimed): the Resolver is called only for a Mapping of exactly the
\* entries Stack and Output; every other Mapping that is no deferred
\* expression, one with Stack, Output and more keys included, is rebuilt
\* with its keys in order and its values transformed.
C8_ExactRecognition ==
    /\ \A i \in 1..Len(calls) : ResourceLookupNode(calls[i].node)
    /\ transformed # None => RebuiltExact(taupage_config, transformed)

\* C8 (amended): the Resolver is called for every visited Mapping that holds
\* both keys Stack and Output, whatever other keys it holds, and that Mapping
\* is replaced by the returned scalar; every other Mapping that is no
\* deferred expression is rebuilt with its keys in order and its values
\* transformed, without a Resolver call for it.
C8_ContainsRecognition ==
    /\ \A i \in 1..Len(calls) : ContainsStackOutput(calls[i].node)
    /\ transformed # None => Rebuilt(taupage_config, transformed)

C8_Witness ==
    /\ transformed # None
    /\ \E i \in 1..Len(taupage_config.v) :
          /\ ContainsStackOutput(taupage_config.v[i][2])
          /\ Len(taupage_config.v[i][2].v) = 3
          /\ transformed.v[i][2].t = "str"
    /\ \E i \in 1..Len(taupage_config.v) :
          /\ taupage_config.v[i][2].t = "map"
          /\ transformed.v[i][2].t = "map"
          /\ Len(transformed.v[i][2].v) = 2

----------------------------------------------------------------------------
(* C9 *)

\* The Mappings a depth-first walk in insertion and element order calls the
\* Resolver for, nothing below a deferred expression: those holding Stack
\* and Output (ExpectedCalls), those of exactly these two entries
\* (ExpectedCallsExact)
RECURSIVE ExpectedCalls(_), ExpectedCallsExact(_)
ExpectedCalls(n) ==
    IF ContainsStackOutput(n) THEN <<n>>
    ELSE IF DeferredExpressionNode(n) THEN <<>>
    ELSE IF n.t = "map" THEN Flatten([i \in 1..Len(n.v) |-> ExpectedCalls(n.v[i][2])])
    ELSE IF n.t = "seq" THEN Flatten([i \in 1..Len(n.v) |-> ExpectedCalls(n.v[i])])
    ELSE <<>>

ExpectedCallsExact(n) ==
    IF ResourceLookupNode(n) THEN <<n>>
    ELSE IF DeferredExpressionNode(n) THEN <<>>
    ELSE IF n.t = "map" THEN Flatten([i \in 1..Len(n.v) |-> ExpectedCallsExact(n.v[i][2])])
    ELSE IF n.t = "seq" THEN Flatten([i \in 1..Len(n.v) |-> ExpectedCallsExact(n.v[i])])
    ELSE <<>>

\* The calls made are the first of the expected ones, in order, one per
\* occurrence; only the last may have failed; each call before it returned
\* its value; and transform returned only after all of them.
CallsFollow(expected) ==
    /\ Len(calls) <= Len(expected)
    /\ \A i \in 1..Len(calls) : calls[i].node = expected[i]
    /\ \A i \in 1..(Len(calls) - 1) : ~calls[i].raised
    /\ Len(returned) = Cardinality({i \in 1..Len(calls) : ~calls[i].raised})
    /\ transformed # None => Len(calls) = Len(expected) /\ ~ResolverFailed

\* C9 (as claimed): the calls are those for the ResourceLookupNodes (exactly
\* Stack and Output) the walker encounters.
C9_CallsExact == CallsFollow(ExpectedCallsExact(taupage_config))

\* C9 (amended): the Resolver calls of one run are, in depth-first
\* insertion/element order, those for the Mappings holding both Stack and
\* Output that the walker encounters outside deferred expressions, one call
\* per occurrence even for identical nodes, each complete before the next;
\* none follows a failed call, and none is made once transform has returned.
C9_CallSequence == CallsFollow(ExpectedCalls(taupage_config))

C9_Witness ==
    /\ Finished
    /\ Len(calls) = 2
    /\ calls[1].node = calls[2].node
    /\ returned[1] # returned[2]

----------------------------------------------------------------------------
(* C10 *)

\* C10 (as claimed): generate_user_data never fails decoding the JSON of a
\* match.  Stated for the configurations whose own scalars do not begin like
\* a placeholder.
C10_NoDecodeFailure == OwnScalarsPlain => error # "JSONDecodeError"

=============================================================================
